---- MODULE Spec2Model ----
(***************************************************************************)
(* Hotel Room Billing System: the SQLite store (database.py), the billing  *)
(* form (billing_window.py), the dashboard (dashboard.py) and the receipt  *)
(* files (receipt.py), as one state machine.                               *)
(*                                                                         *)
(* Text (entry contents, bill numbers, stored dates) is a sequence of      *)
(* one-character strings, so that strip, strftime, zfill, LIKE and         *)
(* strptime are computed and not assumed.  A Python float is either a      *)
(* finite decimal, held exactly as an integer number of 1/10000, or one of *)
(* inf, -inf, nan; binary rounding error (below 1e-9 for the amounts       *)
(* here) is not modelled.  The clock has the granularity of a day.         *)
(*                                                                         *)
(* Spec follows the whole application: startups and shutdowns, the days,   *)
(* the windows of two rooms.  SpecForm follows one billing window and what *)
(* is typed into it.  SpecSave calls Database.save_bill alone, SpecRooms   *)
(* the two room status calls, SpecRender generate_receipt; SpecRace lets   *)
(* two callers of one store interleave.                                    *)
(***************************************************************************)
EXTENDS Integers, Sequences, FiniteSets, TLC

(***************************************************************************)
(* Bounds of the model.                                                    *)
(***************************************************************************)
\* bills saved by billing actions in one run (legacy rows come on top)
MaxBills == 2
\* billing windows open at the same time
MaxWindows == 2
\* calendar days the clock passes through, FirstDay included
MaxDays == 2

(***************************************************************************)
(* State.                                                                  *)
(***************************************************************************)
VARIABLES
    schema,         \* the bills table on disk: "none", "days" (old), "nights"
    bills,          \* the rows of the bills table
    rooms,          \* the rooms table: room_number -> status
    today,          \* the calendar day of the clock
    running,        \* whether the application runs
    windows,        \* room_number -> open billing windows of the room
    room_buttons,   \* the status each dashboard button is painted as
    form,           \* the entries of the billing window, where one window is
                    \* followed (SpecForm)
    old_rows,       \* history: the bill numbers that came from the old schema
    last            \* history: the last action, its outcome, the bill it drew
                    \* from get_bill_data and the receipt it wrote

vars == <<schema, bills, rooms, today, running, windows, room_buttons, form,
          old_rows, last>>

(***************************************************************************)
(* Text helpers.                                                           *)
(***************************************************************************)
Digits == <<"0", "1", "2", "3", "4", "5", "6", "7", "8", "9">>

IsDigit(c) == \E i \in 1..10 : Digits[i] = c

DigitVal(c) == (CHOOSE i \in 1..10 : Digits[i] = c) - 1

AllDigits(s) == s # <<>> /\ \A i \in 1..Len(s) : IsDigit(s[i])

RECURSIVE ToInt(_)
\* int() of a string of decimal digits
ToInt(s) ==
    IF s = <<>> THEN 0
    ELSE ToInt(SubSeq(s, 1, Len(s) - 1)) * 10 + DigitVal(s[Len(s)])

RECURSIVE Str(_)
\* str(n) for n >= 0
Str(n) == IF n < 10 THEN <<Digits[n + 1]>> ELSE Str(n \div 10) \o <<Digits[(n % 10) + 1]>>

RECURSIVE zfill(_, _)
\* str.zfill(width): pads on the left, never truncates
zfill(s, width) == IF Len(s) >= width THEN s ELSE zfill(<<"0">> \o s, width)

RECURSIVE lstrip(_)
lstrip(s) == IF s # <<>> /\ Head(s) = " " THEN lstrip(Tail(s)) ELSE s

RECURSIVE rstrip(_)
rstrip(s) ==
    IF s # <<>> /\ s[Len(s)] = " " THEN rstrip(SubSeq(s, 1, Len(s) - 1)) ELSE s

\* str.strip()
strip(s) == rstrip(lstrip(s))

RECURSIVE Split(_, _)
\* str.split(sep): the fields between the separators
Split(s, sep) ==
    IF s = <<>> THEN << <<>> >>
    ELSE LET rest == Split(Tail(s), sep)
         IN  IF Head(s) = sep
             THEN << <<>> >> \o rest
             ELSE << <<Head(s)>> \o Head(rest) >> \o Tail(rest)

\* variant of LikePrefix: the pattern without its '%'
LikeExact(s, prefix) == s = prefix

\* SQL: s LIKE '<prefix>%' (the prefixes used hold no wildcard and no letter
\* in lower case)
LikePrefix(s, prefix) ==
    Len(s) >= Len(prefix) /\ SubSeq(s, 1, Len(prefix)) = prefix

(***************************************************************************)
(* Calendar dates: datetime's proleptic Gregorian ordinal.                 *)
(***************************************************************************)
IsLeap(y) == (y % 4 = 0) /\ ((y % 100 # 0) \/ (y % 400 = 0))

DaysInMonth(y, m) ==
    IF m = 2 THEN (IF IsLeap(y) THEN 29 ELSE 28)
    ELSE IF m \in {4, 6, 9, 11} THEN 30 ELSE 31

RECURSIVE DaysBeforeMonth(_, _)
DaysBeforeMonth(y, m) ==
    IF m = 1 THEN 0 ELSE DaysBeforeMonth(y, m - 1) + DaysInMonth(y, m - 1)

DaysBeforeYear(y) ==
    365 * (y - 1) + ((y - 1) \div 4) - ((y - 1) \div 100) + ((y - 1) \div 400)

\* date.toordinal()
ToOrdinal(date) == DaysBeforeYear(date.y) + DaysBeforeMonth(date.y, date.m) + date.d

\* the calendar day after date
NextDay(date) ==
    IF date.d < DaysInMonth(date.y, date.m)
    THEN [date EXCEPT !.d = date.d + 1]
    ELSE IF date.m < 12
    THEN [y |-> date.y, m |-> date.m + 1, d |-> 1]
    ELSE [y |-> date.y + 1, m |-> 1, d |-> 1]

\* a parse that failed (Python's None); every real ordinal is >= 1
None == 0

\* the fields dd, mm, yyyy of a text that strptime('%d-%m-%Y') accepts
DateFieldsOK(f) ==
    /\ Len(f) = 3
    /\ AllDigits(f[1]) /\ Len(f[1]) \in 1..2
    /\ AllDigits(f[2]) /\ Len(f[2]) \in 1..2
    /\ AllDigits(f[3]) /\ Len(f[3]) = 4
    /\ ToInt(f[3]) >= 1
    /\ ToInt(f[2]) \in 1..12
    /\ ToInt(f[1]) \in 1..DaysInMonth(ToInt(f[3]), ToInt(f[2]))

\* strptime('%d-%m-%Y') on the fields f: the day's ordinal, None for ValueError
strptime(f) ==
    IF DateFieldsOK(f)
    THEN ToOrdinal([y |-> ToInt(f[3]), m |-> ToInt(f[2]), d |-> ToInt(f[1])])
    ELSE None

\* BillingWindow.parse_date: the day's ordinal, or None
parse_date(date_str) == strptime(Split(strip(date_str), "-"))

\* strftime('%Y%m%d')
StrfYmd(date) == zfill(Str(date.y), 4) \o zfill(Str(date.m), 2) \o zfill(Str(date.d), 2)

\* strftime('%Y-%m-%d %H:%M:%S'), the time of day left out
StrfTimestamp(date) ==
    zfill(Str(date.y), 4) \o <<"-">> \o zfill(Str(date.m), 2) \o <<"-">>
        \o zfill(Str(date.d), 2)

\* strftime('%d-%m-%Y %H:%M:%S'), the time of day left out
StrfDmy(date) ==
    zfill(Str(date.d), 2) \o <<"-">> \o zfill(Str(date.m), 2) \o <<"-">>
        \o zfill(Str(date.y), 4)

(***************************************************************************)
(* Python floats.                                                          *)
(***************************************************************************)
\* one rupee, in the unit the finite amounts are counted in
Unit == 100 * 100

Fin(v) == [kind |-> "fin", v |-> v]
Inf(sign) == [kind |-> "inf", v |-> sign]
NaN == [kind |-> "nan", v |-> 0]
ValueError == [kind |-> "ValueError", v |-> 0]

RECURSIVE PadRight(_, _)
PadRight(s, width) == IF Len(s) >= width THEN s ELSE PadRight(s \o <<"0">>, width)

\* float() of a numeral without sign: inf, nan or a decimal numeral, parts
\* being its fields around the point (the entries of the model have at most
\* four decimals); anything else raises ValueError
FloatUnsigned(sign, body, parts) ==
    IF body = <<"i", "n", "f">> THEN Inf(sign)
    ELSE IF body = <<"n", "a", "n">> THEN NaN
    ELSE IF Len(parts) = 1 /\ AllDigits(parts[1])
    THEN Fin(sign * ToInt(parts[1]) * Unit)
    ELSE IF /\ Len(parts) = 2
            /\ parts[1] \o parts[2] # <<>>
            /\ \A i \in 1..2 : parts[i] = <<>> \/ AllDigits(parts[i])
            /\ Len(parts[2]) <= 4
    THEN Fin(sign * (ToInt(parts[1]) * Unit + ToInt(PadRight(parts[2], 4))))
    ELSE ValueError

\* float() of a text without surrounding blanks: a sign is accepted
FloatSigned(t) ==
    IF t # <<>> /\ Head(t) \in {"-", "+"}
    THEN FloatUnsigned(IF Head(t) = "-" THEN -1 ELSE 1, Tail(t), Split(Tail(t), "."))
    ELSE FloatUnsigned(1, t, Split(t, "."))

\* float(text): surrounding blanks are accepted
float(text) == FloatSigned(strip(text))

\* n * x for an int n >= 0 and a float x
FMulInt(n, x) ==
    CASE x.kind = "fin" -> Fin(n * x.v)
      [] x.kind = "inf" -> IF n = 0 THEN NaN ELSE x
      [] OTHER -> NaN

\* the tax rate 0.09, in percent
TaxPercent == 9

\* x * 0.09
FMulTax(x) ==
    CASE x.kind = "fin" -> Fin((x.v * TaxPercent) \div 100)
      [] x.kind = "inf" -> x
      [] OTHER -> NaN

\* x + y
FAdd(x, y) ==
    CASE x.kind = "nan" \/ y.kind = "nan" -> NaN
      [] x.kind = "inf" /\ y.kind = "inf" -> IF x.v = y.v THEN x ELSE NaN
      [] x.kind = "inf" -> x
      [] y.kind = "inf" -> y
      [] OTHER -> Fin(x.v + y.v)

\* x <= 0 (False when x is nan)
FLeqZero(x) ==
    \/ x.kind = "fin" /\ x.v <= 0
    \/ x.kind = "inf" /\ x.v < 0

(***************************************************************************)
(* The billing form: the four entries of a billing window.                 *)
(***************************************************************************)
\* variant of NightsBetween: both days of the stay counted
NightsInclusive(checkin_date, checkout_date) ==
    IF checkin_date # None /\ checkout_date # None
    THEN (IF checkout_date - checkin_date >= 1
          THEN checkout_date - checkin_date + 1
          ELSE None)
    ELSE None

\* the return of calculate_nights, its two dates parsed
NightsBetween(checkin_date, checkout_date) ==
    IF checkin_date # None /\ checkout_date # None
    THEN (IF checkout_date - checkin_date >= 1
          THEN (IF checkout_date - checkin_date > 1
                THEN checkout_date - checkin_date ELSE 1)
          ELSE None)
    ELSE None

\* BillingWindow.calculate_nights: the nights of the stay, or None
calculate_nights(entries) ==
    NightsBetween(parse_date(strip(entries.checkin)), parse_date(strip(entries.checkout)))

\* variant of ValidationChecks: the guest name is not checked
ValidationChecksNoGuest(guest_name, checkin_date, checkout_date, nights, rate) ==
    IF checkin_date = None
    THEN "Please enter a valid check-in date (DD-MM-YYYY)"
    ELSE IF checkout_date = None
    THEN "Please enter a valid check-out date (DD-MM-YYYY)"
    ELSE IF checkout_date <= checkin_date
    THEN "Check-out date must be after check-in date"
    ELSE IF nights = None \/ nights < 1
    THEN "Number of nights must be at least 1"
    ELSE IF rate = ValueError THEN "Please enter a valid room charge"
    ELSE IF FLeqZero(rate) THEN "Room charge must be greater than 0"
    ELSE ""

\* variant of ValidationChecks: the dates are parsed and not compared
ValidationChecksNoOrder(guest_name, checkin_date, checkout_date, nights, rate) ==
    IF guest_name = <<>> THEN "Please enter guest name"
    ELSE IF checkin_date = None
    THEN "Please enter a valid check-in date (DD-MM-YYYY)"
    ELSE IF checkout_date = None
    THEN "Please enter a valid check-out date (DD-MM-YYYY)"
    ELSE IF rate = ValueError THEN "Please enter a valid room charge"
    ELSE IF FLeqZero(rate) THEN "Room charge must be greater than 0"
    ELSE ""

\* the checks of validate_inputs in their order, the entries read and parsed:
\* the error shown, "" when there is none
ValidationChecks(guest_name, checkin_date, checkout_date, nights, rate) ==
    IF guest_name = <<>> THEN "Please enter guest name"
    ELSE IF checkin_date = None
    THEN "Please enter a valid check-in date (DD-MM-YYYY)"
    ELSE IF checkout_date = None
    THEN "Please enter a valid check-out date (DD-MM-YYYY)"
    ELSE IF checkout_date <= checkin_date
    THEN "Check-out date must be after check-in date"
    ELSE IF nights = None \/ nights < 1
    THEN "Number of nights must be at least 1"
    ELSE IF rate = ValueError THEN "Please enter a valid room charge"
    ELSE IF FLeqZero(rate) THEN "Room charge must be greater than 0"
    ELSE ""

\* the error validate_inputs shows for the form, "" when the form is valid
ValidationMessage(entries) ==
    ValidationChecks(strip(entries.guest_name),
                     parse_date(strip(entries.checkin)),
                     parse_date(strip(entries.checkout)),
                     calculate_nights(entries),
                     float(entries.rate))

(***************************************************************************)
(* The store: tables rooms and bills of hotel_billing.db.                  *)
(***************************************************************************)
RoomNumbers == {"101", "102", "103", "104", "105", "106"}

BILL == <<"B", "I", "L", "L">>

\* the width the sequence number of a bill is padded to
BillNoWidth == 4

\* variant of CountLike: every bill is counted, whatever its day
CountAll(ledger, date_str) == Cardinality(ledger)

\* SELECT COUNT(*) FROM bills WHERE bill_no LIKE 'BILL<date_str>%'
CountLike(ledger, date_str) ==
    Cardinality({b \in ledger : LikePrefix(b.bill_no, BILL \o date_str)})

\* variant of BillNumber: the count is not raised by one
BillNumberNoIncrement(date_str, count) ==
    BILL \o date_str \o zfill(Str(count), BillNoWidth)

\* the bill number made of the date and the count of the day's bills
BillNumber(date_str, count) == BILL \o date_str \o zfill(Str(count + 1), BillNoWidth)

\* Database.generate_bill_number
generate_bill_number(ledger, now) ==
    BillNumber(StrfYmd(now), CountLike(ledger, StrfYmd(now)))

\* the REAL columns of bills, all NOT NULL; sqlite3 binds a nan as NULL
RealColumnsNotNull(bill_data) ==
    \A x \in {bill_data.rate, bill_data.subtotal, bill_data.cgst,
              bill_data.sgst, bill_data.total} : x.kind # "nan"

\* variant of SaveError: bill_no is not a key of the table
SaveErrorNoKey(ledger, bill_data, io_ok) ==
    IF ~io_ok THEN "disk I/O error"
    ELSE IF ~RealColumnsNotNull(bill_data) THEN "NOT NULL constraint failed"
    ELSE ""

\* the sqlite3.Error of the INSERT of save_bill, "" when it succeeds;
\* io_ok is false when the storage itself fails (disk, lock)
SaveError(ledger, bill_data, io_ok) ==
    IF ~io_ok THEN "disk I/O error"
    ELSE IF ~RealColumnsNotNull(bill_data) THEN "NOT NULL constraint failed"
    ELSE IF \E b \in ledger : b.bill_no = bill_data.bill_no
    THEN "UNIQUE constraint failed: bills.bill_no"
    ELSE ""

\* variant of save_bill: INSERT OR REPLACE
save_bill_replace(ledger, bill_data, io_ok) ==
    IF io_ok /\ RealColumnsNotNull(bill_data)
    THEN {b \in ledger : b.bill_no # bill_data.bill_no} \cup {bill_data}
    ELSE ledger

\* Database.save_bill: the table after the call
save_bill(ledger, bill_data, io_ok) ==
    IF SaveError(ledger, bill_data, io_ok) = "" THEN ledger \cup {bill_data} ELSE ledger

\* Database.get_bill: the row of bill_no, NULL when there is none
get_bill(ledger, bill_no) ==
    IF \E b \in ledger : b.bill_no = bill_no
    THEN CHOOSE b \in ledger : b.bill_no = bill_no
    ELSE <<>>

\* Database.get_room_status
get_room_status(table, room_number) ==
    IF room_number \in DOMAIN table THEN table[room_number] ELSE "available"

\* Database.get_all_rooms_status: the dict of every row of the rooms table
get_all_rooms_status(table) == [r \in DOMAIN table |-> table[r]]

\* variant of set_room_status: the table is emptied and the row inserted
set_room_status_replace(table, room_number, status) ==
    [r \in {room_number} |-> status]

\* variant of set_room_status: the UPDATE has no WHERE clause
set_room_status_all(table, room_number, status) ==
    [r \in DOMAIN table |-> status]

\* Database.set_room_status: an UPDATE, so a room that has no row gets none
set_room_status(table, room_number, status) ==
    IF room_number \in DOMAIN table
    THEN [table EXCEPT ![room_number] = status]
    ELSE table

\* SQL NULL
NULL == <<>>

\* COALESCE(date, datetime('now'))
CoalesceDate(date, now) == IF date = NULL THEN StrfTimestamp(now) ELSE date

\* variant of MigrateRow: nights takes the default of one night
MigrateRowOneNight(old, now) ==
    [bill_no |-> old.bill_no,
     guest_name |-> old.guest_name,
     room_number |-> old.room_number,
     check_in_date |-> CoalesceDate(old.date, now),
     checkout_date |-> CoalesceDate(old.date, now),
     nights |-> 1,
     rate |-> old.rate,
     subtotal |-> old.subtotal,
     cgst |-> old.cgst,
     sgst |-> old.sgst,
     total |-> old.total,
     date |-> CoalesceDate(old.date, now)]

\* the row the migration of init_database writes for a row of the old schema
MigrateRow(old, now) ==
    [bill_no |-> old.bill_no,
     guest_name |-> old.guest_name,
     room_number |-> old.room_number,
     check_in_date |-> CoalesceDate(old.date, now),
     checkout_date |-> CoalesceDate(old.date, now),
     nights |-> old.days,
     rate |-> old.rate,
     subtotal |-> old.subtotal,
     cgst |-> old.cgst,
     sgst |-> old.sgst,
     total |-> old.total,
     date |-> CoalesceDate(old.date, now)]

\* variant of SeedRooms: INSERT OR REPLACE in place of INSERT OR IGNORE
SeedRoomsReplace(table) ==
    [r \in (DOMAIN table) \cup RoomNumbers |->
        IF r \in RoomNumbers THEN "available" ELSE table[r]]

\* the INSERT OR IGNORE of the six rooms
SeedRooms(table) ==
    [r \in (DOMAIN table) \cup RoomNumbers |->
        IF r \in DOMAIN table THEN table[r] ELSE "available"]

\* variant of init_database: a bills table of the new schema is created anew
init_database_recreate(db, now) ==
    [schema |-> "nights",
     bills |-> IF db.schema = "days"
               THEN {MigrateRow(old, now) : old \in db.bills}
               ELSE {},
     rooms |-> SeedRooms(db.rooms)]

\* Database.init_database: the store after startup.  A bills table that has
\* the column nights is left as it is (a table with neither days nor nights
\* is written by no version of the program and is not modelled).
init_database(db, now) ==
    [schema |-> "nights",
     bills |-> IF db.schema = "days"
               THEN {MigrateRow(old, now) : old \in db.bills}
               ELSE db.bills,
     rooms |-> SeedRooms(db.rooms)]

\* the dict get_bill_data returns, its values computed
BillDict(bill_no, guest_name, room_number, check_in_date, checkout_date, nights, rate, subtotal, cgst, sgst, date) ==
    [bill_no |-> bill_no,
     guest_name |-> guest_name,
     room_number |-> room_number,
     check_in_date |-> check_in_date,
     checkout_date |-> checkout_date,
     nights |-> nights,
     rate |-> rate,
     subtotal |-> subtotal,
     cgst |-> cgst,
     sgst |-> sgst,
     total |-> FAdd(FAdd(subtotal, cgst), sgst),
     date |-> date]

\* variant of BillTaxes: sgst is taken on subtotal + cgst
BillTaxesCompound(bill_no, guest_name, room_number, check_in_date, checkout_date, nights, rate, subtotal, date) ==
    BillDict(bill_no, guest_name, room_number, check_in_date, checkout_date, nights,
             rate, subtotal, FMulTax(subtotal),
             FMulTax(FAdd(subtotal, FMulTax(subtotal))), date)

\* cgst = subtotal * 0.09 and sgst = subtotal * 0.09
BillTaxes(bill_no, guest_name, room_number, check_in_date, checkout_date, nights, rate, subtotal, date) ==
    BillDict(bill_no, guest_name, room_number, check_in_date, checkout_date, nights,
             rate, subtotal, FMulTax(subtotal), FMulTax(subtotal), date)

\* subtotal = nights * rate
BillAmounts(bill_no, guest_name, room_number, check_in_date, checkout_date, nights, rate, date) ==
    BillTaxes(bill_no, guest_name, room_number, check_in_date, checkout_date, nights,
              rate, FMulInt(nights, rate), date)

\* the values get_bill_data reads from the entries
EntryValues(entries) ==
    [guest_name |-> strip(entries.guest_name),
     check_in_date |-> strip(entries.checkin),
     checkout_date |-> strip(entries.checkout),
     nights |-> calculate_nights(entries),
     rate |-> float(entries.rate)]

\* the dict of get_bill_data for the values v read from the entries
BillOf(v, bill_no, room_number, date) ==
    BillAmounts(bill_no, v.guest_name, room_number, v.check_in_date,
                v.checkout_date, v.nights, v.rate, date)

(***************************************************************************)
(* Inputs: what the user types into the entries and which room buttons are *)
(* clicked, and the stores the program may find when it is first started.  *)
(***************************************************************************)
Raj == <<"R", "a", "j">>

GuestEntries == {<<>>, <<" ", " ">>, Raj, <<" ">> \o Raj \o <<" ">>}

D3112 == <<"3", "1", "-", "1", "2", "-", "2", "0", "2", "4">>
D0101 == <<"0", "1", "-", "0", "1", "-", "2", "0", "2", "5">>
D0301 == <<"0", "3", "-", "0", "1", "-", "2", "0", "2", "5">>
\* the 30th of February
D3002 == <<"3", "0", "-", "0", "2", "-", "2", "0", "2", "5">>
\* year first: not DD-MM-YYYY
Y0301 == <<"2", "0", "2", "5", "-", "0", "1", "-", "0", "3">>

\* <<check-in entry, check-out entry>>
DateEntries ==
    { <<D0101, D0301>>,
      <<D3112, <<" ">> \o D0101 \o <<" ">> >>,
      <<D0101, D0101>>,
      <<D0301, D0101>>,
      <<D3002, D0301>>,
      <<D0101, Y0301>>,
      << <<>>, D0301>> }

RateEntries ==
    { <<"2", "0", "0", "0">>,
      <<"i", "n", "f">>,
      <<"n", "a", "n">>,
      <<"0">>,
      <<"-", "1", "0", "0">>,
      <<"-", "i", "n", "f">>,
      <<"a", "b", "c">>,
      <<>> }

\* a form every validation rule accepts: the stay of two nights at 2000
BaseForm ==
    [guest_name |-> <<" ">> \o Raj \o <<" ">>, checkin |-> D0101, checkout |-> D0301,
     rate |-> <<"2", "0", "0", "0">>]

\* the forms submitted: BaseForm with the guest entry varied, with the date
\* entries varied (the stay of one night at 999.99), and with the rate entry
\* varied
Forms ==
    { [BaseForm EXCEPT !.guest_name = g] : g \in GuestEntries }
    \cup
    { [BaseForm EXCEPT !.checkin = dd[1], !.checkout = dd[2],
                       !.rate = <<"9", "9", "9", ".", "9", "9">>] : dd \in DateEntries }
    \cup
    { [BaseForm EXCEPT !.rate = r] : r \in RateEntries }

\* the forms submitted where several windows are followed: the valid stay
\* and a check-out on the day of the check-in
SystemForms ==
    { BaseForm,
      [BaseForm EXCEPT !.checkout = D0101, !.rate = <<"9", "9", "9", ".", "9", "9">>] }

\* ValidationMessage and EntryValues of the forms of the model, as explicit
\* tables (@@ makes them so): the entries of a form are parsed once
ValidationTable == [f \in Forms |-> ValidationMessage(f)] @@ <<>>

EntryTable == [f \in Forms |-> EntryValues(f)] @@ <<>>

\* BillingWindow.validate_inputs
validate_inputs(entries) == ValidationTable[entries] = ""

\* BillingWindow.get_bill_data
get_bill_data(entries, room_number, ledger, now) ==
    BillOf(EntryTable[entries], generate_bill_number(ledger, now), room_number,
           StrfTimestamp(now))

\* the room buttons the user clicks
ClickedRooms == {"101", "104"}

\* the day the program is first started
FirstDay == [y |-> 2024, m |-> 12, d |-> 31]

\* rows of the old schema (days, one date), written before FirstDay and
\* earlier on FirstDay
OldRow1 ==
    [bill_no |-> BILL \o <<"2", "0", "2", "4", "1", "2", "3", "0", "0", "0", "0", "1">>,
     guest_name |-> Raj, room_number |-> "101", days |-> 3,
     rate |-> Fin(2000 * Unit), subtotal |-> Fin(6000 * Unit),
     cgst |-> Fin(540 * Unit), sgst |-> Fin(540 * Unit), total |-> Fin(7080 * Unit),
     date |-> <<"2", "0", "2", "4", "-", "1", "2", "-", "3", "0">>]

OldRow2 ==
    [bill_no |-> BILL \o <<"2", "0", "2", "4", "1", "2", "3", "1", "0", "0", "0", "1">>,
     guest_name |-> Raj, room_number |-> "104", days |-> 1,
     rate |-> Fin(1500 * Unit), subtotal |-> Fin(1500 * Unit),
     cgst |-> Fin(135 * Unit), sgst |-> Fin(135 * Unit), total |-> Fin(1770 * Unit),
     date |-> <<"2", "0", "2", "4", "-", "1", "2", "-", "3", "1">>]

AllAvailable == [r \in RoomNumbers |-> "available"]

\* the database file found at the first start: none, or one of the old schema
InitialStores ==
    { [schema |-> "none", bills |-> {}, rooms |-> <<>>],
      [schema |-> "days", bills |-> {OldRow1, OldRow2},
       rooms |-> [AllAvailable EXCEPT !["101"] = "occupied"]] }

(***************************************************************************)
(* The store as one value, and the history kept of the last action.       *)
(***************************************************************************)
store == [schema |-> schema, bills |-> bills, rooms |-> rooms]

\* no bill and no receipt: a dict that holds an empty bill number only
NoBill == [bill_no |-> <<>>]

\* the entries of a window that is not followed
NoForm == [guest_name |-> <<>>, checkin |-> <<>>, checkout |-> <<>>, rate |-> <<>>]

\* bill: the dict the action drew from get_bill_data; receipt: the dict the
\* action rendered into the file receipts/<bill_no>.pdf
Outcome(op, result, bill, receipt) ==
    [op |-> op, result |-> result, bill |-> bill, receipt |-> receipt]

\* the rows saved by billing actions
NewBills == {b \in bills : b.bill_no \notin old_rows}

RECURSIVE SumWindows(_)
SumWindows(rs) ==
    IF rs = {} THEN 0
    ELSE LET r == CHOOSE x \in rs : TRUE IN windows[r] + SumWindows(rs \ {r})

\* Dashboard.update_room_status: the buttons after a read of the rooms table
update_room_status(rms) ==
    [r \in RoomNumbers |->
        IF (IF r \in DOMAIN rms THEN rms[r] ELSE "available") = "available"
        THEN "available" ELSE "occupied"]

Init ==
    /\ \E st \in InitialStores :
          /\ schema = st.schema
          /\ bills = st.bills
          /\ rooms = st.rooms
          /\ old_rows = {b.bill_no : b \in st.bills}
    /\ today = FirstDay
    /\ running = FALSE
    /\ windows = [r \in RoomNumbers |-> 0]
    /\ room_buttons = <<>>
    /\ form = NoForm
    /\ last = Outcome("none", "none", NoBill, NoBill)

(***************************************************************************)
(* Actions.                                                                *)
(***************************************************************************)
\* main(): Dashboard(root) opens the store and paints the buttons
Startup ==
    /\ ~running
    /\ LET st == init_database(store, today)
       IN  /\ schema' = st.schema
           /\ bills' = st.bills
           /\ rooms' = st.rooms
           /\ room_buttons' = update_room_status(st.rooms)
    /\ running' = TRUE
    /\ last' = Outcome("startup", IF schema = "days" THEN "migrated" ELSE "ok",
                       NoBill, NoBill)
    /\ UNCHANGED <<today, windows, old_rows>>

\* the user closes the dashboard: the process and its windows end
Shutdown ==
    /\ running
    /\ running' = FALSE
    /\ windows' = [r \in RoomNumbers |-> 0]
    /\ room_buttons' = <<>>
    /\ last' = Outcome("shutdown", "ok", NoBill, NoBill)
    /\ UNCHANGED <<schema, bills, rooms, today, old_rows>>

\* midnight passes
AdvanceDay ==
    /\ ToOrdinal(today) < ToOrdinal(FirstDay) + MaxDays - 1
    /\ today' = NextDay(today)
    /\ last' = Outcome("clock", "ok", NoBill, NoBill)
    /\ UNCHANGED <<schema, bills, rooms, running, windows, room_buttons, old_rows>>

\* variant of OpenBillingWindow: the buttons are not painted again
OpenBillingWindowNoRepaint(room_number) ==
    /\ running
    /\ SumWindows(RoomNumbers) < MaxWindows
    /\ IF get_room_status(rooms, room_number) = "available"
       THEN /\ rooms' = set_room_status(rooms, room_number, "occupied")
            /\ UNCHANGED room_buttons
       ELSE UNCHANGED <<rooms, room_buttons>>
    /\ windows' = [windows EXCEPT ![room_number] = @ + 1]
    /\ last' = Outcome("open_billing_window", "ok", NoBill, NoBill)
    /\ UNCHANGED <<schema, bills, today, running, old_rows>>

\* Dashboard.open_billing_window
OpenBillingWindow(room_number) ==
    /\ running
    /\ SumWindows(RoomNumbers) < MaxWindows
    /\ IF get_room_status(rooms, room_number) = "available"
       THEN /\ rooms' = set_room_status(rooms, room_number, "occupied")
            /\ room_buttons' = update_room_status(rooms')
       ELSE UNCHANGED <<rooms, room_buttons>>
    /\ windows' = [windows EXCEPT ![room_number] = @ + 1]
    /\ last' = Outcome("open_billing_window", "ok", NoBill, NoBill)
    /\ UNCHANGED <<schema, bills, today, running, old_rows>>

\* variant of CloseWindow: closing the window frees its room
CloseWindowFrees(room_number) ==
    /\ running
    /\ windows[room_number] > 0
    /\ windows' = [windows EXCEPT ![room_number] = @ - 1]
    /\ rooms' = set_room_status(rooms, room_number, "available")
    /\ room_buttons' = update_room_status(rooms')
    /\ last' = Outcome("close_window", "ok", NoBill, NoBill)
    /\ UNCHANGED <<schema, bills, today, running, old_rows>>

\* the user closes a billing window
CloseWindow(room_number) ==
    /\ running
    /\ windows[room_number] > 0
    /\ windows' = [windows EXCEPT ![room_number] = @ - 1]
    /\ last' = Outcome("close_window", "ok", NoBill, NoBill)
    /\ UNCHANGED <<schema, bills, rooms, today, running, room_buttons, old_rows>>

\* the Refresh Status button
Refresh ==
    /\ running
    /\ room_buttons' = update_room_status(rooms)
    /\ last' = Outcome("refresh", "ok", NoBill, NoBill)
    /\ UNCHANGED <<schema, bills, rooms, today, running, windows, old_rows>>

\* ReceiptGenerator.generate_receipt at the time now: the file it writes and
\* what the document shows.  The document shows the keys of bill_data the
\* code reads (the key date is not among them) and the time of rendering;
\* the layout and the two-decimal print of the amounts are left out.
generate_receipt(bill_data, now) ==
    [filepath |-> [dir |-> "receipts",
                   name |-> bill_data.bill_no \o <<".", "p", "d", "f">>],
     receipt_no |-> bill_data.bill_no,
     receipt_date |-> StrfDmy(now),
     guest_name |-> bill_data.guest_name,
     room_number |-> bill_data.room_number,
     check_in_date |-> bill_data.check_in_date,
     checkout_date |-> bill_data.checkout_date,
     nights |-> bill_data.nights,
     rate |-> bill_data.rate,
     subtotal |-> bill_data.subtotal,
     cgst |-> bill_data.cgst,
     sgst |-> bill_data.sgst,
     total |-> bill_data.total]

\* the receipt file of an action that renders bill_data; render_ok is false
\* when ReceiptGenerator.generate_receipt raises
Rendered(bill_data, render_ok) ==
    IF render_ok THEN generate_receipt(bill_data, today) ELSE NoBill

\* variant of GenerateBillSave: the handler of the save error does not return
GenerateBillSaveNoReturn(room_number, bill_data, io_ok, render_ok) ==
    /\ bills' = save_bill(bills, bill_data, io_ok)
    /\ rooms' = set_room_status(rooms, room_number, "occupied")
    /\ room_buttons' = update_room_status(rooms')
    /\ last' = Outcome("generate_bill",
                       IF SaveError(bills, bill_data, io_ok) # ""
                       THEN SaveError(bills, bill_data, io_ok)
                       ELSE IF render_ok THEN "success" ELSE "receipt_error",
                       bill_data,
                       Rendered(bill_data, render_ok))

\* generate_bill from the save on, bill_data being the dict of get_bill_data
GenerateBillSave(room_number, bill_data, io_ok, render_ok) ==
    IF SaveError(bills, bill_data, io_ok) # ""
    THEN /\ last' = Outcome("generate_bill", SaveError(bills, bill_data, io_ok),
                            bill_data, NoBill)
         /\ UNCHANGED <<bills, rooms, room_buttons>>
    ELSE /\ bills' = save_bill(bills, bill_data, io_ok)
         /\ rooms' = set_room_status(rooms, room_number, "occupied")
         /\ room_buttons' = update_room_status(rooms')
         /\ last' = Outcome("generate_bill",
                            IF render_ok THEN "success" ELSE "receipt_error",
                            bill_data,
                            Rendered(bill_data, render_ok))

\* BillingWindow.generate_bill in a window of room_number, the entries being f
GenerateBill(room_number, f, io_ok, render_ok) ==
    /\ running
    /\ windows[room_number] > 0
    /\ Cardinality(NewBills) < MaxBills
    /\ IF ~validate_inputs(f)
       THEN /\ last' = Outcome("generate_bill", "invalid", NoBill, NoBill)
            /\ UNCHANGED <<bills, rooms, room_buttons>>
       ELSE GenerateBillSave(room_number,
                             get_bill_data(f, room_number, bills, today),
                             io_ok, render_ok)
    /\ UNCHANGED <<schema, today, running, windows, old_rows>>

\* print_receipt from the rendering on
PrintReceiptRender(bill_data, render_ok) ==
    last' = Outcome("print_receipt",
                    IF render_ok THEN "success" ELSE "receipt_error",
                    bill_data,
                    Rendered(bill_data, render_ok))

\* BillingWindow.print_receipt
PrintReceipt(room_number, f, render_ok) ==
    /\ running
    /\ windows[room_number] > 0
    /\ IF ~validate_inputs(f)
       THEN last' = Outcome("print_receipt", "invalid", NoBill, NoBill)
       ELSE PrintReceiptRender(get_bill_data(f, room_number, bills, today), render_ok)
    /\ UNCHANGED <<schema, bills, rooms, today, running, windows, room_buttons,
                   old_rows>>

\* variant of CheckoutRoomSave: the handler of the receipt error returns
CheckoutRoomSaveReturns(room_number, bill_data, io_ok, render_ok) ==
    IF SaveError(bills, bill_data, io_ok) # ""
    THEN /\ last' = Outcome("checkout_room", SaveError(bills, bill_data, io_ok),
                            bill_data, NoBill)
         /\ UNCHANGED <<bills, rooms, room_buttons, windows>>
    ELSE /\ bills' = save_bill(bills, bill_data, io_ok)
         /\ rooms' = IF render_ok
                     THEN set_room_status(rooms, room_number, "available")
                     ELSE rooms
         /\ room_buttons' = update_room_status(rooms')
         /\ windows' = IF render_ok
                       THEN [windows EXCEPT ![room_number] = @ - 1]
                       ELSE windows
         /\ last' = Outcome("checkout_room",
                            IF render_ok THEN "success" ELSE "receipt_error",
                            bill_data,
                            Rendered(bill_data, render_ok))

\* checkout_room from the save on
CheckoutRoomSave(room_number, bill_data, io_ok, render_ok) ==
    IF SaveError(bills, bill_data, io_ok) # ""
    THEN /\ last' = Outcome("checkout_room", SaveError(bills, bill_data, io_ok),
                            bill_data, NoBill)
         /\ UNCHANGED <<bills, rooms, room_buttons, windows>>
    ELSE /\ bills' = save_bill(bills, bill_data, io_ok)
         /\ rooms' = set_room_status(rooms, room_number, "available")
         /\ room_buttons' = update_room_status(rooms')
         /\ windows' = [windows EXCEPT ![room_number] = @ - 1]
         /\ last' = Outcome("checkout_room",
                            IF render_ok THEN "success" ELSE "receipt_error",
                            bill_data,
                            Rendered(bill_data, render_ok))

\* BillingWindow.checkout_room
CheckoutRoom(room_number, f, io_ok, render_ok) ==
    /\ running
    /\ windows[room_number] > 0
    /\ Cardinality(NewBills) < MaxBills
    /\ IF ~validate_inputs(f)
       THEN /\ last' = Outcome("checkout_room", "invalid", NoBill, NoBill)
            /\ UNCHANGED <<bills, rooms, room_buttons, windows>>
       ELSE CheckoutRoomSave(room_number,
                             get_bill_data(f, room_number, bills, today),
                             io_ok, render_ok)
    /\ UNCHANGED <<schema, today, running, old_rows>>

(***************************************************************************)
(* Spec: the whole application, any number of windows, restarts and days.  *)
(***************************************************************************)
Next ==
    \/ Startup /\ UNCHANGED form
    \/ Shutdown /\ UNCHANGED form
    \/ AdvanceDay /\ UNCHANGED form
    \/ \E r \in ClickedRooms : OpenBillingWindow(r) /\ UNCHANGED form
    \/ \E r \in ClickedRooms : CloseWindow(r) /\ UNCHANGED form
    \/ Refresh /\ UNCHANGED form
    \/ \E r \in ClickedRooms, f \in SystemForms, io_ok \in BOOLEAN, render_ok \in BOOLEAN :
          GenerateBill(r, f, io_ok, render_ok) /\ UNCHANGED form
    \/ \E r \in ClickedRooms, f \in SystemForms, render_ok \in BOOLEAN :
          PrintReceipt(r, f, render_ok) /\ UNCHANGED form
    \/ \E r \in ClickedRooms, f \in SystemForms, io_ok \in BOOLEAN, render_ok \in BOOLEAN :
          CheckoutRoom(r, f, io_ok, render_ok) /\ UNCHANGED form

Spec == Init /\ [][Next]_vars

(***************************************************************************)
(* SpecForm: one billing window of room 101 on a new store, its entries    *)
(* typed by the user and submitted with the three buttons.                 *)
(***************************************************************************)
FormRoom == "101"

InitForm ==
    /\ schema = "nights"
    /\ bills = {}
    /\ rooms = [AllAvailable EXCEPT ![FormRoom] = "occupied"]
    /\ old_rows = {}
    /\ today = FirstDay
    /\ running = TRUE
    /\ windows = [r \in RoomNumbers |-> IF r = FormRoom THEN 1 ELSE 0]
    /\ room_buttons = update_room_status(rooms)
    /\ form \in Forms
    /\ last = Outcome("open_billing_window", "ok", NoBill, NoBill)

\* the user edits the entries of the window
TypeForm ==
    /\ windows[FormRoom] > 0
    /\ form' \in Forms
    /\ last' = Outcome("type", "ok", NoBill, NoBill)
    /\ UNCHANGED <<schema, bills, rooms, today, running, windows, room_buttons,
                   old_rows>>

NextForm ==
    \/ TypeForm
    \/ OpenBillingWindow(FormRoom) /\ UNCHANGED form
    \/ \E io_ok \in BOOLEAN, render_ok \in BOOLEAN :
          GenerateBill(FormRoom, form, io_ok, render_ok) /\ UNCHANGED form
    \/ \E render_ok \in BOOLEAN :
          PrintReceipt(FormRoom, form, render_ok) /\ UNCHANGED form
    \/ \E io_ok \in BOOLEAN, render_ok \in BOOLEAN :
          CheckoutRoom(FormRoom, form, io_ok, render_ok) /\ UNCHANGED form

SpecForm == InitForm /\ [][NextForm]_vars

(***************************************************************************)
(* SpecSave: Database.save_bill alone, called with any dict on any ledger  *)
(* such calls build.                                                       *)
(***************************************************************************)
Asha == <<"A", "s", "h", "a">>

\* the dicts save_bill is called with: three numbers of FirstDay, the first
\* being the number of OldRow2
SaveArgs ==
    { BillAmounts(BillNumber(StrfYmd(FirstDay), k), g, "104", D0101, D0301, 2, r,
                  StrfTimestamp(FirstDay)) :
        k \in 0..2, g \in {Raj, Asha}, r \in {Fin(2000 * Unit), Inf(1), NaN} }

InitSave ==
    /\ schema = "nights"
    /\ bills \in {{}, {MigrateRow(OldRow2, FirstDay)}}
    /\ rooms = AllAvailable
    /\ old_rows = {b.bill_no : b \in bills}
    /\ today = FirstDay
    /\ running = TRUE
    /\ windows = [r \in RoomNumbers |-> 0]
    /\ room_buttons = update_room_status(rooms)
    /\ form = NoForm
    /\ last = Outcome("none", "none", NoBill, NoBill)

\* one call of Database.save_bill
SaveBillCall(bill_data, io_ok) ==
    /\ bills' = save_bill(bills, bill_data, io_ok)
    /\ last' = Outcome("save_bill",
                       IF SaveError(bills, bill_data, io_ok) = ""
                       THEN "saved" ELSE SaveError(bills, bill_data, io_ok),
                       bill_data, NoBill)
    /\ UNCHANGED <<schema, rooms, today, running, windows, room_buttons, form,
                   old_rows>>

NextSave == \E bill_data \in SaveArgs, io_ok \in BOOLEAN : SaveBillCall(bill_data, io_ok)

SpecSave == InitSave /\ [][NextSave]_vars

(***************************************************************************)
(* SpecRooms: calls of get_room_status and set_room_status on the rooms     *)
(* table of a fresh store, for the room numbers of the dashboard and for    *)
(* one number that has no row.  last.written keeps, for every room number   *)
(* set_room_status was called with, the status of the latest call.          *)
(***************************************************************************)
UnknownRoom == "999"
CalledRooms == RoomNumbers \cup {UnknownRoom}
Statuses == {"available", "occupied"}

RoomCall(op, room_number, result, written) ==
    [op |-> op, room_number |-> room_number, result |-> result,
     written |-> written]

InitRooms ==
    /\ schema = "nights"
    /\ bills = {}
    /\ rooms = SeedRooms(<<>>)
    /\ old_rows = {}
    /\ today = FirstDay
    /\ running = TRUE
    /\ windows = [r \in RoomNumbers |-> 0]
    /\ room_buttons = update_room_status(rooms)
    /\ form = NoForm
    /\ last = RoomCall("none", "none", "none", <<>>)

\* one call of Database.set_room_status
SetRoomStatusCall(room_number, status) ==
    /\ rooms' = set_room_status(rooms, room_number, status)
    /\ last' = RoomCall("set_room_status", room_number, status,
                        [r \in DOMAIN last.written \cup {room_number} |->
                            IF r = room_number THEN status
                            ELSE last.written[r]])
    /\ UNCHANGED <<schema, bills, today, running, windows, room_buttons, form,
                   old_rows>>

\* one call of Database.get_room_status
GetRoomStatusCall(room_number) ==
    /\ last' = RoomCall("get_room_status", room_number,
                        get_room_status(rooms, room_number), last.written)
    /\ UNCHANGED <<schema, bills, rooms, today, running, windows,
                   room_buttons, form, old_rows>>

NextRooms ==
    \/ \E room_number \in CalledRooms, status \in Statuses :
          SetRoomStatusCall(room_number, status)
    \/ \E room_number \in CalledRooms : GetRoomStatusCall(room_number)

SpecRooms == InitRooms /\ [][NextRooms]_vars

(***************************************************************************)
(* SpecRender: calls of ReceiptGenerator.generate_receipt on the dicts of   *)
(* get_bill_data, on one day or another.  last.rendered keeps every call:   *)
(* the dict and the document written for it.                                *)
(***************************************************************************)
RenderArgs ==
    {get_bill_data(f, r, {}, FirstDay) : f \in SystemForms, r \in ClickedRooms}

RenderCall(op, bill, receipt, rendered) ==
    [op |-> op, bill |-> bill, receipt |-> receipt, rendered |-> rendered]

InitRender ==
    /\ schema = "nights"
    /\ bills = {}
    /\ rooms = AllAvailable
    /\ old_rows = {}
    /\ today = FirstDay
    /\ running = TRUE
    /\ windows = [r \in RoomNumbers |-> 0]
    /\ room_buttons = update_room_status(rooms)
    /\ form = NoForm
    /\ last = RenderCall("none", NoBill, NoBill, {})

\* one call of ReceiptGenerator.generate_receipt
GenerateReceiptCall(bill_data) ==
    /\ last' = RenderCall("generate_receipt", bill_data,
                          generate_receipt(bill_data, today),
                          last.rendered \cup
                            {[bill |-> bill_data,
                              receipt |-> generate_receipt(bill_data, today)]})
    /\ UNCHANGED <<schema, bills, rooms, today, running, windows, room_buttons,
                   form, old_rows>>

\* midnight passes between two calls
RenderNextDay ==
    /\ ToOrdinal(today) < ToOrdinal(FirstDay) + MaxDays - 1
    /\ today' = NextDay(today)
    /\ UNCHANGED <<schema, bills, rooms, running, windows, room_buttons, form,
                   old_rows, last>>

NextRender ==
    \/ \E bill_data \in RenderArgs : GenerateReceiptCall(bill_data)
    \/ RenderNextDay

SpecRender == InitRender /\ [][NextRender]_vars

(***************************************************************************)
(* SpecRace: two callers of one store (two processes on the same database   *)
(* file), each of which calls get_bill_data, which draws the bill number,   *)
(* and later save_bill, in any interleaving.  last.drawn keeps the dict     *)
(* each caller holds between its two calls.                                 *)
(***************************************************************************)
Callers == {1, 2}

\* the room of the billing window of each caller
CallerRoom(c) == IF c = 1 THEN "101" ELSE "104"

RaceCall(op, caller, result, bill, drawn) ==
    [op |-> op, caller |-> caller, result |-> result, bill |-> bill,
     drawn |-> drawn]

InitRace ==
    /\ schema = "nights"
    /\ bills \in {{}, {MigrateRow(OldRow2, FirstDay)}}
    /\ rooms = AllAvailable
    /\ old_rows = {b.bill_no : b \in bills}
    /\ today = FirstDay
    /\ running = TRUE
    /\ windows = [r \in RoomNumbers |-> 0]
    /\ room_buttons = update_room_status(rooms)
    /\ form = NoForm
    /\ last = RaceCall("none", 0, "none", NoBill, [c \in Callers |-> NoBill])

\* caller c runs get_bill_data: generate_bill_number reads the table
DrawBill(c, f) ==
    /\ last.drawn[c] = NoBill
    /\ Cardinality(NewBills) < MaxBills
    /\ last' = RaceCall("get_bill_data", c, "ok",
                        get_bill_data(f, CallerRoom(c), bills, today),
                        [last.drawn EXCEPT
                            ![c] = get_bill_data(f, CallerRoom(c), bills, today)])
    /\ UNCHANGED <<schema, bills, rooms, today, running, windows, room_buttons,
                   form, old_rows>>

\* caller c runs save_bill on the dict it holds
SaveDrawn(c, io_ok) ==
    /\ last.drawn[c] # NoBill
    /\ bills' = save_bill(bills, last.drawn[c], io_ok)
    /\ last' = RaceCall("save_bill", c,
                        IF SaveError(bills, last.drawn[c], io_ok) = ""
                        THEN "saved" ELSE SaveError(bills, last.drawn[c], io_ok),
                        last.drawn[c],
                        [last.drawn EXCEPT ![c] = NoBill])
    /\ UNCHANGED <<schema, rooms, today, running, windows, room_buttons, form,
                   old_rows>>

\* midnight passes
RaceNextDay ==
    /\ ToOrdinal(today) < ToOrdinal(FirstDay) + MaxDays - 1
    /\ today' = NextDay(today)
    /\ last' = RaceCall("clock", 0, "ok", NoBill, last.drawn)
    /\ UNCHANGED <<schema, bills, rooms, running, windows, room_buttons, form,
                   old_rows>>

NextRace ==
    \/ \E c \in Callers, f \in SystemForms : DrawBill(c, f)
    \/ \E c \in Callers, io_ok \in BOOLEAN : SaveDrawn(c, io_ok)
    \/ RaceNextDay

SpecRace == InitRace /\ [][NextRace]_vars

(***************************************************************************)
(* Properties.                                                             *)
(***************************************************************************)
BillingOps == {"generate_bill", "print_receipt", "checkout_room"}

\* BILLYYYYMMDD of a bill number, and its sequence digits
DayPart(bill_no) == SubSeq(bill_no, 1, 12)
Suffix(bill_no) == SubSeq(bill_no, 13, Len(bill_no))

\* the ledger records of the day of bill number n
SameDay(ledger, n) ==
    {b \in ledger : Len(b.bill_no) >= 12 /\ DayPart(b.bill_no) = DayPart(n)}

\* the last step drew a bill number
DrewNumber(outcome) == outcome.op \in BillingOps /\ outcome.bill # NoBill

\* what C1 asks of one step
C1_Step ==
    DrewNumber(last') =>
        /\ Len(last'.bill.bill_no) = 16
        /\ SubSeq(last'.bill.bill_no, 1, 4) = BILL
        /\ AllDigits(SubSeq(last'.bill.bill_no, 5, 16))
        /\ ToInt(SubSeq(last'.bill.bill_no, 5, 8)) = today.y
        /\ ToInt(SubSeq(last'.bill.bill_no, 9, 10)) = today.m
        /\ ToInt(SubSeq(last'.bill.bill_no, 11, 12)) = today.d
        /\ ToInt(Suffix(last'.bill.bill_no))
              = 1 + Cardinality(SameDay(bills, last'.bill.bill_no))
        /\ \A b \in SameDay(bills, last'.bill.bill_no) :
              ToInt(Suffix(b.bill_no)) < ToInt(Suffix(last'.bill.bill_no))

\* C1: a bill number drawn by a billing action is BILL, the eight digits of
\* today's date and four more digits; these count one more than the ledger
\* records of today, so they are above those of every record of today.
C1_BillNumberSequence == [][C1_Step]_vars

\* two bills saved on one day, numbered 0001 and 0002, the second just saved
C1_Witness ==
    /\ last.result = "success"
    /\ last.bill \in NewBills
    /\ Suffix(last.bill.bill_no) = <<"0", "0", "0", "2">>
    /\ \E b \in NewBills :
          /\ DayPart(b.bill_no) = DayPart(last.bill.bill_no)
          /\ Suffix(b.bill_no) = <<"0", "0", "0", "1">>

\* what C2 asks of one step
C2_Step ==
    (DrewNumber(last') /\ \A b \in bills : DayPart(b.bill_no) # BILL \o StrfYmd(today))
        => Suffix(last'.bill.bill_no) = <<"0", "0", "0", "1">>

\* C2: when the ledger holds no record of today, the number drawn ends in
\* 0001, whatever the ledger holds of earlier days.
C2_NewDayStartsAt0001 == [][C2_Step]_vars

\* the day after FirstDay: the bill saved is 0001 and the ledger holds three
\* records of earlier days
C2_Witness ==
    /\ today = NextDay(FirstDay)
    /\ last.result = "success"
    /\ last.bill \in bills
    /\ ToInt(SubSeq(last.bill.bill_no, 11, 12)) = today.d
    /\ Suffix(last.bill.bill_no) = <<"0", "0", "0", "1">>
    /\ Cardinality(bills \ {last.bill}) >= 3

\* what C3 asks of one step
C3_Step ==
    /\ DrewNumber(last') => \A b \in bills : b.bill_no # last'.bill.bill_no
    /\ last'.op \in BillingOps
          => last'.result # "UNIQUE constraint failed: bills.bill_no"

\* C3: the number a billing action draws is the number of no record of the
\* ledger, and no save is refused for a duplicate bill number.
C3_NoDuplicateNumber == [][C3_Step]_vars

\* two bills of one guest, room and stay, saved one after the other
C3_Witness ==
    /\ last.result = "success"
    /\ last.bill \in NewBills
    /\ \E b \in NewBills :
          /\ b.bill_no # last.bill.bill_no
          /\ b.guest_name = last.bill.guest_name
          /\ b.room_number = last.bill.room_number
          /\ b.check_in_date = last.bill.check_in_date
          /\ b.checkout_date = last.bill.checkout_date

\* what C4 asks of one step
C4_Step ==
    last'.op = "save_bill" =>
        IF \E b \in bills : b.bill_no = last'.bill.bill_no
        THEN last'.result # "saved" /\ bills' = bills
        ELSE /\ last'.result # "UNIQUE constraint failed: bills.bill_no"
             /\ last'.result = "NOT NULL constraint failed"
                   => \E x \in {last'.bill.rate, last'.bill.total} : x.kind = "nan"
             /\ IF last'.result = "saved"
                THEN bills' = bills \cup {last'.bill} /\ last'.bill \notin bills
                ELSE bills' = bills

\* C4: save_bill of a dict whose bill_no the ledger holds fails and leaves
\* the ledger as it was; save_bill of a dict with a new bill_no is never
\* refused as a duplicate, is refused for a NULL only when a REAL column is
\* nan, and either adds the whole dict or fails and leaves the ledger as it was.
C4_SaveBillAtomic == [][C4_Step]_vars

\* a save refused for its number, the ledger holding another guest's record
\* under that number
C4_Witness ==
    /\ last.op = "save_bill"
    /\ last.result = "UNIQUE constraint failed: bills.bill_no"
    /\ last.bill \notin bills
    /\ \E b \in bills :
          b.bill_no = last.bill.bill_no /\ b.guest_name # last.bill.guest_name
    /\ Cardinality(bills) = 3

\* the entries validation is to refuse: no guest name, a date that is no
\* DD-MM-YYYY date, a check-out not after the check-in, a rate that is no
\* number or not above zero
InvalidEntries(f) ==
    \/ strip(f.guest_name) = <<>>
    \/ parse_date(f.checkin) = None
    \/ parse_date(f.checkout) = None
    \/ parse_date(f.checkout) <= parse_date(f.checkin)
    \/ float(f.rate) = ValueError
    \/ FLeqZero(float(f.rate))

\* what C5 asks of one step
C5_Step ==
    (last'.op \in BillingOps /\ InvalidEntries(form)) =>
        /\ last'.result = "invalid"
        /\ last'.bill = NoBill
        /\ last'.receipt = NoBill
        /\ UNCHANGED <<schema, bills, rooms, room_buttons, windows>>

\* C5: a billing action on entries that fail validation saves no bill, draws
\* no bill number, writes no receipt and changes no room status, button or
\* window.
C5_InvalidInputNoEffect == [][C5_Step]_vars

\* a checkout refused for its entries, on a ledger that holds a bill
C5_Witness ==
    /\ last.op = "checkout_room"
    /\ last.result = "invalid"
    /\ InvalidEntries(form)
    /\ bills # {}

\* both dates parse and the check-out is not after the check-in
CheckoutNotAfter(f) ==
    /\ parse_date(f.checkin) # None
    /\ parse_date(f.checkout) # None
    /\ parse_date(f.checkout) <= parse_date(f.checkin)

\* what C6 asks of one step
C6_Step ==
    /\ (last'.op \in BillingOps /\ CheckoutNotAfter(form))
          => (last'.result = "invalid" /\ bills' = bills)
    /\ \A b \in bills' \ bills : b.nights >= 1

\* C6: a billing action whose check-out is on or before its check-in is
\* refused and saves nothing, and every bill saved has nights >= 1.
C6_CheckoutAfterCheckin == [][C6_Step]_vars

\* Generate Bill refused for a check-out on the day of the check-in
C6_Witness ==
    /\ last.op = "generate_bill"
    /\ last.result = "invalid"
    /\ parse_date(form.checkin) # None
    /\ parse_date(form.checkout) = parse_date(form.checkin)

\* C7: every bill saved by a billing action has a finite rate above zero.
C7_RateFinitePositive ==
    \A b \in NewBills : b.rate.kind = "fin" /\ b.rate.v > 0

\* C8: every bill saved by a billing action has subtotal = nights * rate,
\* cgst = sgst = 9% of subtotal and total = subtotal + cgst + sgst; the stay
\* from 01-01-2025 to 03-01-2025 at 2000 has 2 nights, 4000, 360, 360, 4720.
C8_BillAmounts ==
    \A b \in NewBills :
        /\ b.rate.kind = "fin" =>
              /\ {b.subtotal.kind, b.cgst.kind, b.sgst.kind, b.total.kind} = {"fin"}
              /\ b.subtotal.v = b.nights * b.rate.v
              /\ 100 * b.cgst.v = 9 * b.subtotal.v
              /\ 100 * b.sgst.v = 9 * b.subtotal.v
              /\ b.total.v = b.subtotal.v + b.cgst.v + b.sgst.v
        /\ b.rate.kind # "fin" =>
              /\ b.subtotal = b.rate
              /\ b.cgst = b.rate
              /\ b.sgst = b.rate
              /\ b.total = b.rate
        /\ (b.check_in_date = D0101 /\ b.checkout_date = D0301
                /\ b.rate = Fin(2000 * Unit)) =>
              /\ b.nights = 2
              /\ b.subtotal = Fin(4000 * Unit)
              /\ b.cgst = Fin(360 * Unit)
              /\ b.sgst = Fin(360 * Unit)
              /\ b.total = Fin(4720 * Unit)

\* the stay of two nights at 2000 and the stay of one night at 999.99, saved
C8_Witness ==
    /\ \E b \in NewBills : b.nights = 2 /\ b.total = Fin(4720 * Unit)
    /\ \E b \in NewBills : b.nights = 1 /\ b.rate = Fin(9999900)

\* the day of a stored date: DD-MM-YYYY as the billing form stores it, or
\* YYYY-MM-DD as the timestamp of a migrated row begins
StoredDay(text) ==
    IF parse_date(text) # None THEN parse_date(text)
    ELSE ToOrdinal([y |-> ToInt(SubSeq(text, 1, 4)),
                    m |-> ToInt(SubSeq(text, 6, 7)),
                    d |-> ToInt(SubSeq(text, 9, 10))])

\* the days between the stored dates of a record, 1 at least
StoredNights(b) ==
    IF StoredDay(b.checkout_date) - StoredDay(b.check_in_date) > 1
    THEN StoredDay(b.checkout_date) - StoredDay(b.check_in_date)
    ELSE 1

\* the rows of the old schema the program may start on
LegacyRows == UNION {st.bills : st \in {s \in InitialStores : s.schema = "days"}}

\* C9 as stated: the nights of every record of the ledger are the days
\* between its stored dates, 1 at least.
C9_NightsOfEveryRecord ==
    schema = "nights" => \A b \in bills : b.nights = StoredNights(b)

\* C9 as amended: the nights of every record saved by a billing action are
\* the days between its stored dates, 1 or more; a migrated record has its
\* check-in and check-out on one date and the nights its row had as days.
C9_NightsOfSavedBills ==
    schema = "nights" =>
        /\ \A b \in NewBills :
              /\ b.nights = StoredDay(b.checkout_date) - StoredDay(b.check_in_date)
              /\ b.nights >= 1
        /\ \A b \in bills \ NewBills :
              /\ b.check_in_date = b.checkout_date
              /\ \E old \in LegacyRows : old.bill_no = b.bill_no /\ b.nights = old.days

\* a migrated record of three nights beside a saved bill of two nights
C9_Witness ==
    /\ schema = "nights"
    /\ \E b \in bills \ NewBills : b.nights = 3 /\ StoredNights(b) = 1
    /\ \E b \in NewBills : b.nights = 2

\* what C10 asks of one step
C10_Step ==
    last'.op = "startup" =>
        IF schema = "days"
        THEN /\ schema' = "nights"
             /\ Cardinality(bills') = Cardinality(bills)
             /\ bills' = { [bill_no |-> old.bill_no,
                             guest_name |-> old.guest_name,
                             room_number |-> old.room_number,
                             check_in_date |-> old.date,
                             checkout_date |-> old.date,
                             nights |-> old.days,
                             rate |-> old.rate,
                             subtotal |-> old.subtotal,
                             cgst |-> old.cgst,
                             sgst |-> old.sgst,
                             total |-> old.total,
                             date |-> old.date] : old \in bills }
        ELSE schema = "nights" => UNCHANGED <<schema, bills, rooms>>

\* C10: a startup on the old schema writes, for every row, the record with
\* nights = days, check-in = check-out = the row's date and the other
\* columns as they were, and as many records as there were rows; a startup
\* on the new schema leaves the bills and the rooms as they are.
C10_MigrationIdempotent == [][C10_Step]_vars

\* a second startup on a ledger of two migrated records
C10_Witness ==
    /\ last.op = "startup"
    /\ last.result = "ok"
    /\ schema = "nights"
    /\ Cardinality(bills \ NewBills) = 2
    /\ \E b \in bills \ NewBills : b.nights = 3

\* what C11 asks of one step
C11_Step ==
    /\ \A b \in bills : \E c \in bills' : c.bill_no = b.bill_no
    /\ schema = "nights" =>
          /\ bills \subseteq bills'
          /\ \A b \in bills : get_bill(bills', b.bill_no) = b

\* C11: no step removes a bill number from the ledger, and once the ledger
\* has the schema with nights every step leaves every record in it, field
\* for field, as get_bill reads it back: the set of records only grows.
C11_LedgerAppendOnly == [][C11_Step]_vars

\* a restart on a ledger that holds a migrated record and two saved bills
C11_Witness ==
    /\ last.op = "startup"
    /\ Cardinality(NewBills) = 2
    /\ bills \ NewBills # {}

\* C12: in SpecRooms every room of the store reads back, by get_room_status,
\* the status of the latest set_room_status on it, whatever was called on
\* other rooms since; a get_room_status that was called returned that status;
\* and get_room_status of a number that has no row returned 'available'.
C12_RoomStatusRoundTrip ==
    /\ \A r \in DOMAIN last.written \cap DOMAIN rooms :
          get_room_status(rooms, r) = last.written[r]
    /\ last.op = "get_room_status" =>
          /\ last.room_number \in DOMAIN last.written \cap DOMAIN rooms =>
                last.result = last.written[last.room_number]
          /\ last.room_number \notin DOMAIN rooms => last.result = "available"

\* room 101 was set occupied, then another room was set available, then
\* room 101 was read
C12_Witness ==
    /\ last.op = "get_room_status"
    /\ last.room_number = "101"
    /\ last.result = "occupied"
    /\ \E r \in DOMAIN last.written : r # "101" /\ last.written[r] = "available"

\* get_room_status was called on the number that has no row
C12_WitnessUnknown ==
    /\ last.op = "get_room_status"
    /\ last.room_number = UnknownRoom
    /\ last.result = "available"

\* C13: in SpecRooms every number set_room_status was called with, the one
\* that had no row included, has a row afterwards: get_room_status and
\* get_all_rooms_status report for it the status of the latest call.
C13_SetStatusUpserts ==
    \A r \in DOMAIN last.written :
        /\ r \in DOMAIN get_all_rooms_status(rooms)
        /\ get_all_rooms_status(rooms)[r] = last.written[r]
        /\ get_room_status(rooms, r) = last.written[r]

\* what C14 asks of one step
C14_Step ==
    last'.op = "startup" =>
        /\ DOMAIN rooms' = RoomNumbers
        /\ DOMAIN rooms = {} => \A r \in RoomNumbers : rooms'[r] = "available"
        /\ DOMAIN rooms # {} => DOMAIN rooms' = DOMAIN rooms
        /\ \A r \in DOMAIN rooms : rooms'[r] = rooms[r]

\* C14: the startup of a store without rooms leaves the rooms 101..106, each
\* 'available'; the startup of a store with rooms leaves every room with the
\* status it had and the same set of rooms.
C14_RoomSeedingIdempotent == [][C14_Step]_vars

\* a restart with room 104 occupied since an earlier run
C14_Witness ==
    /\ last.op = "startup"
    /\ rooms # <<>>
    /\ rooms["104"] = "occupied"

\* the action of outcome drew a bill and save_bill raised
SaveFailed(outcome) ==
    /\ outcome.op \in {"generate_bill", "checkout_room"}
    /\ outcome.bill # NoBill
    /\ outcome.result \notin {"success", "receipt_error"}

\* what C15 asks of one step
C15_Step ==
    SaveFailed(last') =>
        /\ bills' = bills
        /\ rooms' = rooms
        /\ room_buttons' = room_buttons
        /\ windows' = windows
        /\ last'.receipt = NoBill

\* C15: a Generate Bill or Checkout Room whose save_bill raises changes
\* nothing: the ledger, the status of every room and the dashboard are as
\* before, no receipt is rendered and every billing window stays open.
C15_SaveFailureAborts == [][C15_Step]_vars

\* a Checkout Room whose save failed, its window still open on its room
C15_Witness ==
    /\ SaveFailed(last)
    /\ last.op = "checkout_room"
    /\ windows[last.bill.room_number] > 0
    /\ rooms[last.bill.room_number] = "occupied"

\* a Generate Bill whose save failed while the room was available
C15_WitnessGenerate ==
    /\ SaveFailed(last)
    /\ last.op = "generate_bill"
    /\ rooms[last.bill.room_number] = "available"

\* what C16 asks of one step
C16_Step ==
    last'.result = "receipt_error" /\ last'.op \in {"generate_bill", "checkout_room"} =>
        /\ last'.bill \notin bills
        /\ bills' = bills \cup {last'.bill}
        /\ rooms'[last'.bill.room_number] =
              (IF last'.op = "generate_bill" THEN "occupied" ELSE "available")

\* C16: a Generate Bill or Checkout Room whose receipt fails after the save
\* is not rolled back: the new bill is in the ledger, and the room of the
\* window is occupied after Generate Bill and available after Checkout Room.
C16_ReceiptFailureKeepsBill == [][C16_Step]_vars

\* a Checkout Room whose receipt failed: bill saved, room available
C16_Witness ==
    /\ last.op = "checkout_room"
    /\ last.result = "receipt_error"
    /\ last.bill \in bills
    /\ rooms[last.bill.room_number] = "available"

\* a Generate Bill whose receipt failed: bill saved, room occupied
C16_WitnessGenerate ==
    /\ last.op = "generate_bill"
    /\ last.result = "receipt_error"
    /\ last.bill \in bills
    /\ rooms[last.bill.room_number] = "occupied"

\* C17: in SpecRender any two calls of generate_receipt on the same dict
\* wrote the file receipts/<bill_no>.pdf and the same document, whenever
\* each of them ran.
C17_RenderDeterministic ==
    \A a, b \in last.rendered :
        a.bill = b.bill =>
            /\ a.receipt.filepath.name = a.bill.bill_no \o <<".", "p", "d", "f">>
            /\ a.receipt = b.receipt

\* C18: while the application runs, after every action the dashboard shows
\* for each of the six rooms the status the rooms table holds for it.
C18_DashboardShowsStore ==
    running =>
        /\ DOMAIN room_buttons = RoomNumbers
        /\ \A r \in RoomNumbers : r \in DOMAIN rooms /\ room_buttons[r] = rooms[r]

\* a Checkout Room in one of two windows of a room: the room is shown
\* available while the other window is still open
C18_Witness ==
    /\ running
    /\ last.op = "checkout_room"
    /\ last.result = "success"
    /\ windows[last.bill.room_number] > 0
    /\ room_buttons[last.bill.room_number] = "available"

\* windows of two rooms are open and a bill was generated in one of them
C18_WitnessTwoRooms ==
    /\ running
    /\ last.op = "generate_bill"
    /\ last.result = "success"
    /\ \E r \in RoomNumbers : r # last.bill.room_number /\ windows[r] > 0
    /\ room_buttons[last.bill.room_number] = "occupied"

\* the action of outcome went through to its end
Succeeded(outcome, op) == outcome.op = op /\ outcome.result = "success"

\* what C19 asks of one step
C19_Step ==
    /\ DOMAIN rooms \subseteq DOMAIN rooms'
    /\ last'.op = "open_billing_window" =>
          \A r \in RoomNumbers :
              rooms'[r] = (IF windows'[r] > windows[r] THEN "occupied" ELSE rooms[r])
    /\ Succeeded(last', "generate_bill") =>
          \A r \in RoomNumbers :
              rooms'[r] = (IF r = last'.bill.room_number THEN "occupied" ELSE rooms[r])
    /\ Succeeded(last', "checkout_room") =>
          \A r \in RoomNumbers :
              rooms'[r] = (IF r = last'.bill.room_number THEN "available" ELSE rooms[r])

\* C19: opening a billing window leaves its room occupied, a Generate Bill
\* that succeeds leaves the room of its window occupied, a Checkout Room that
\* succeeds leaves it available; each of them leaves every other room as it
\* was, and no step removes a room.
C19_RoomStatusFrame == [][C19_Step]_vars

\* a Checkout Room succeeded in one room while another room is occupied
C19_Witness ==
    /\ Succeeded(last, "checkout_room")
    /\ rooms[last.bill.room_number] = "available"
    /\ \E r \in RoomNumbers : rooms[r] = "occupied"

\* a window was opened on a room while another room is occupied
C19_WitnessOpen ==
    /\ last.op = "open_billing_window"
    /\ \E r, q \in RoomNumbers :
          r # q /\ windows[r] > 0 /\ rooms[r] = "occupied" /\ rooms[q] = "occupied"

\* a second bill of this run was generated
C19_WitnessGenerate ==
    /\ Succeeded(last, "generate_bill")
    /\ rooms[last.bill.room_number] = "occupied"
    /\ Cardinality(NewBills) = 2

\* the bill numbers of a ledger
BillNumbers(ledger) == {b.bill_no : b \in ledger}

\* what C20 asks of one step
C20_Step ==
    /\ \A a, b \in bills' : a.bill_no = b.bill_no => a = b
    /\ last'.op = "get_bill_data" =>
          \A c \in Callers :
              /\ last.drawn[c] # NoBill
              /\ last.drawn[c].bill_no \notin BillNumbers(bills)
              /\ DayPart(last.drawn[c].bill_no) = DayPart(last'.bill.bill_no)
              => last.drawn[c].bill_no = last'.bill.bill_no
    /\ last'.op = "save_bill" =>
          IF last'.bill.bill_no \in BillNumbers(bills)
          THEN /\ last'.result \in {"UNIQUE constraint failed: bills.bill_no",
                                     "disk I/O error"}
               /\ bills' = bills
          ELSE \/ last'.result = "saved" /\ bills' = bills \cup {last'.bill}
               \/ last'.result = "disk I/O error" /\ bills' = bills

\* C20: in SpecRace the ledger never holds two records with one bill number.
\* A caller that draws its number while the other holds a number of the same
\* day that nobody has saved yet draws that same number; the save of a
\* number the ledger does not hold adds the record unless the storage fails,
\* and the save of a number the ledger holds raises the database error and
\* leaves the ledger as it was.
C20_RaceKeepsNumbersUnique == [][C20_Step]_vars

\* both callers drew the same number, the first save succeeded and the
\* second raised the error of the key
C20_Witness ==
    /\ last.op = "save_bill"
    /\ last.result = "UNIQUE constraint failed: bills.bill_no"
    /\ \E b \in NewBills : b.bill_no = last.bill.bill_no /\ b # last.bill

\* C21: whenever Print Receipt has rendered a document, the receipt number
\* of the document is the bill number of a record of the ledger.
C21_PrintedReceiptIsOfSavedBill ==
    last.op = "print_receipt" /\ last.receipt # NoBill =>
        last.receipt.receipt_no \in BillNumbers(bills)

\* what C22 asks of one step
C22_Step ==
    \A r \in DOMAIN rooms :
        rooms[r] = "occupied" /\ rooms'[r] = "available" =>
            /\ last'.op = "checkout_room"
            /\ last'.result \in {"success", "receipt_error"}
            /\ last'.bill.room_number = r
            /\ last'.bill \in bills' \ bills

\* C22: a step that makes an occupied room available is a Checkout Room in a
\* window of that room that went through to its end (with or without its
\* receipt), and that step has added a bill of that room to the ledger.
C22_OnlyCheckoutFreesRoom == [][C22_Step]_vars

\* a Checkout Room closed the last window of its room and freed the room
C22_Witness ==
    /\ Succeeded(last, "checkout_room")
    /\ last.bill \in NewBills
    /\ windows[last.bill.room_number] = 0
    /\ rooms[last.bill.room_number] = "available"

====
